---------------------------- MODULE Spec2Model ----------------------------
(***************************************************************************)
(* FantasyPredictor (src/model.py): a predictor object trained from a CSV  *)
(* file and queried for single players.                                    *)
(*                                                                         *)
(* Strings that the code takes apart or sorts (player names, position      *)
(* labels) are sequences of one-character strings.  A CSV cell is a record *)
(* [t, v]: a number (t = "num"), a missing value (t = "nan") or text that  *)
(* is not a number (t = "text").  Weights are exact fractions [num, den].  *)
(***************************************************************************)
EXTENDS Integers, Sequences, FiniteSets

VARIABLES
    model,           \* self.model: None, an unfitted forest or a fitted one
    player_encoder,  \* self.player_encoder
    pos_encoder,     \* self.pos_encoder
    features,        \* self.features
    is_trained,      \* self.is_trained
    last,            \* history: the last call made on the object and its outcome
    fn               \* the harness of the specifications that exercise one computation

vars == <<model, player_encoder, pos_encoder, features, is_trained, last, fn>>

\* The predictor object's own fields.
predictor == <<model, player_encoder, pos_encoder, features, is_trained>>

(***************************************************************************)
(* Bounds                                                                  *)
(***************************************************************************)
MaxRows == 3        \* rows of a training file
MaxNameLen == 3     \* characters of a name given to the normalization
MaxYears == 3       \* rows of a weighting input

(***************************************************************************)
(* Program constants                                                       *)
(***************************************************************************)
current_season == 2025
default_age == 25

(***************************************************************************)
(* Characters and strings                                                  *)
(***************************************************************************)
Chars == {" ", "*", "+", "A", "B", "C", "Q", "R", "W"}

\* The code point of a character: Python compares strings by code points.
Ord(c) ==
    CASE c = " " -> 32
      [] c = "*" -> 42
      [] c = "+" -> 43
      [] c = "A" -> 65
      [] c = "B" -> 66
      [] c = "C" -> 67
      [] c = "Q" -> 81
      [] c = "R" -> 82
      [] c = "W" -> 87

\* s < t for Python strings.
RECURSIVE StrLess(_, _)
StrLess(s, t) ==
    IF t = <<>> THEN FALSE
    ELSE IF s = <<>> THEN TRUE
    ELSE IF Ord(Head(s)) # Ord(Head(t)) THEN Ord(Head(s)) < Ord(Head(t))
    ELSE StrLess(Tail(s), Tail(t))

\* s.split(c)[0]: the part of s before the first c, all of s when it has none.
SplitFirst(s, c) ==
    IF \E i \in 1..Len(s) : s[i] = c
    THEN LET i == CHOOSE k \in 1..Len(s) :
                      s[k] = c /\ \A j \in 1..(k - 1) : s[j] # c
         IN  SubSeq(s, 1, i - 1)
    ELSE s

RECURSIVE LStrip(_)
LStrip(s) == IF s # <<>> /\ Head(s) = " " THEN LStrip(Tail(s)) ELSE s

RECURSIVE RStrip(_)
RStrip(s) ==
    IF s # <<>> /\ s[Len(s)] = " " THEN RStrip(SubSeq(s, 1, Len(s) - 1)) ELSE s

\* s.strip()
Strip(s) == RStrip(LStrip(s))

\* The name stripped before its markers are cut off.
CleanTrainNameStripFirst(x) == SplitFirst(SplitFirst(Strip(x), "*"), "+")

\* The lambda of train_model: x.split('*')[0].split('+')[0].strip()
CleanTrainName(x) == Strip(SplitFirst(SplitFirst(x, "*"), "+"))

\* predict_player: player_name.split('*')[0].split('+')[0].strip()
CleanPredictName(player_name) == Strip(SplitFirst(SplitFirst(player_name, "*"), "+"))

(***************************************************************************)
(* LabelEncoder                                                            *)
(***************************************************************************)
\* LabelEncoder(): no classes_ yet.
NewLabelEncoder == [fitted |-> FALSE, classes_ |-> <<>>]

Range(s) == {s[i] : i \in 1..Len(s)}

\* The sorted array of a set of labels.
RECURSIVE SortedLabels(_)
SortedLabels(S) ==
    IF S = {} THEN <<>>
    ELSE LET m == CHOOSE x \in S : \A y \in S \ {x} : StrLess(x, y)
         IN  <<m>> \o SortedLabels(S \ {m})

\* A fit that keeps the labels the encoder already holds.
EncoderFitMerge(enc, column) ==
    [fitted |-> TRUE, classes_ |-> SortedLabels(Range(enc.classes_) \cup Range(column))]

\* enc.fit_transform(column), the encoder afterwards: classes_ is replaced by the
\* sorted unique labels of the column.
EncoderFit(enc, column) == [fitted |-> TRUE, classes_ |-> SortedLabels(Range(column))]

\* The index of a label in classes_, from 0.
ClassIndex(enc, label) ==
    (CHOOSE i \in 1..Len(enc.classes_) : enc.classes_[i] = label) - 1

\* transform([label]): ValueError (NotFittedError is one) unless the encoder is
\* fitted and knows the label.
EncoderKnows(enc, label) == enc.fitted /\ label \in Range(enc.classes_)

\* fit_transform's second result: the column's labels as indices.
EncoderCodes(enc, column) == [i \in 1..Len(column) |-> ClassIndex(enc, column[i])]

(***************************************************************************)
(* Fractions                                                               *)
(***************************************************************************)
RECURSIVE Gcd(_, _)
Gcd(a, b) == IF b = 0 THEN a ELSE Gcd(b, a % b)

Frac(n, d) == LET g == Gcd(n, d) IN [num |-> n \div g, den |-> d \div g]
FracAdd(a, b) == Frac(a.num * b.den + b.num * a.den, a.den * b.den)
FracDiv(a, b) == Frac(a.num * b.den, a.den * b.num)
FracLeq(a, b) == a.num * b.den <= b.num * a.den
FracPos(a) == a.num > 0 /\ a.den > 0

RECURSIVE FracSum(_)
FracSum(s) == IF s = <<>> THEN Frac(0, 1) ELSE FracAdd(Head(s), FracSum(Tail(s)))

(***************************************************************************)
(* Recency weights                                                         *)
(***************************************************************************)
\* Twice Year_Gap.clip(lower=0.5), for a whole year.
ClippedGap2(year) ==
    LET gap2 == 2 * (current_season - year) IN IF gap2 < 1 THEN 1 ELSE gap2

\* The square of the clipped gap, not its inverse.
RawWeightOlderHeavier(year) == Frac(ClippedGap2(year) * ClippedGap2(year), 4)

\* 1 / (Year_Gap.clip(lower=0.5) ** 2)
RawWeight(year) == Frac(4, ClippedGap2(year) * ClippedGap2(year))

\* df['Weight'] / df['Weight'].mean(); an empty frame has no weights.
Weights(years) ==
    IF years = <<>> THEN <<>>
    ELSE LET raw  == [i \in 1..Len(years) |-> RawWeight(years[i])]
             mean == FracDiv(FracSum(raw), Frac(Len(years), 1))
         IN  [i \in 1..Len(years) |-> FracDiv(raw[i], mean)]

(***************************************************************************)
(* Training files                                                          *)
(***************************************************************************)
Num(v) == [t |-> "num", v |-> v]
NaN == [t |-> "nan", v |-> 0]
Text == [t |-> "text", v |-> 0]

\* The table the training files are cut from: Player, FantPos, Age, Year and the
\* cell of the file's points column.
MasterTable ==
    << [Player |-> <<"A", "*">>,      FantPos |-> <<"W", "R">>, Age |-> Num(27),
        Year |-> Num(2023), target |-> Num(10)],
       [Player |-> <<"B">>,           FantPos |-> <<"R", "B">>, Age |-> NaN,
        Year |-> Num(2026), target |-> Num(8)],
       [Player |-> <<" ", "A", "+">>, FantPos |-> <<"R", "B">>, Age |-> Text,
        Year |-> Num(2025), target |-> Num(15)],
       [Player |-> <<"C">>,           FantPos |-> <<"Q", "B">>, Age |-> Num(30),
        Year |-> Text,      target |-> Num(12)],
       [Player |-> <<"C", "+">>,      FantPos |-> <<"W", "R">>, Age |-> Num(24),
        Year |-> Num(2024), target |-> NaN],
       [Player |-> <<"B", "*", "+">>, FantPos |-> <<"Q", "B">>, Age |-> Text,
        Year |-> Num(2024), target |-> Text] >>

\* The rows of the table whose index is in S, in the table's order, from row i on.
RECURSIVE SubTable(_, _)
SubTable(S, i) ==
    IF i > Len(MasterTable) THEN <<>>
    ELSE (IF i \in S THEN <<MasterTable[i]>> ELSE <<>>) \o SubTable(S, i + 1)

\* The rows of a training file: at most MaxRows rows of the table.
RowSeqs ==
    {SubTable(S, 1) : S \in {T \in SUBSET (1..Len(MasterTable)) : Cardinality(T) <= MaxRows}}

\* The header of the file's points column, stripped (line 24).
Headers == {"FantPT", "FantPt", "Points"}

NoFile == [exists |-> FALSE, header |-> "", rows |-> <<>>]

Files ==
    {NoFile} \cup {[exists |-> TRUE, header |-> h, rows |-> rs] : h \in Headers, rs \in RowSeqs}

\* df.columns after the strip.
Columns(file) == {"Player", "FantPos", "Age", "Year", file.header}

\* Step 2: the target column, "" when the file has neither spelling.
TargetCol(columns) ==
    IF "FantPT" \in columns THEN "FantPT"
    ELSE IF "FantPt" \in columns THEN "FantPt"
    ELSE ""

\* pd.to_numeric(df['Age'], errors='coerce').fillna(25)
CleanAgeZero(cell) == IF cell.t = "num" THEN cell.v ELSE 0

CleanAge(cell) == IF cell.t = "num" THEN cell.v ELSE default_age

\* Step 3 on one row: the name cleaned, the age imputed.
CleanRow(r) ==
    [Player |-> CleanTrainName(r.Player), FantPos |-> r.FantPos,
     Age |-> CleanAge(r.Age), Year |-> r.Year, target |-> r.target]

\* dropna(subset=[target_col]), then Year coerced to a number and dropna(['Year']).
KeptTargetOnly(r) == r.target.t # "nan"

Kept(r) == r.target.t # "nan" /\ r.Year.t = "num"

RECURSIVE DropInvalid(_)
DropInvalid(rows) ==
    IF rows = <<>> THEN <<>>
    ELSE IF Kept(Head(rows)) THEN <<Head(rows)>> \o DropInvalid(Tail(rows))
    ELSE DropInvalid(Tail(rows))

\* The frame after step 3.
CleanFrame(rows) == DropInvalid([i \in 1..Len(rows) |-> CleanRow(rows[i])])

Column(df, name) == [i \in 1..Len(df) |-> df[i][name]]

(***************************************************************************)
(* RandomForestRegressor, kept to what the predictor relies on: fit raises *)
(* ValueError on an empty frame or a target that is not a number; a fitted *)
(* forest answers from its training rows, the same for the same input.     *)
(***************************************************************************)
NoModel == [kind |-> "None", X |-> <<>>, y |-> <<>>, sample_weight |-> <<>>]
NewForest == [kind |-> "unfitted", X |-> <<>>, y |-> <<>>, sample_weight |-> <<>>]

FitRaises(X, y) == Len(X) = 0 \/ \E i \in 1..Len(y) : y[i].t # "num"

Fit(X, y, weights) ==
    [kind |-> "fitted", X |-> X, y |-> [i \in 1..Len(y) |-> y[i].v],
     sample_weight |-> weights]

Abs(n) == IF n < 0 THEN -n ELSE n

Distance(a, b) == Abs(a[1] - b[1]) + Abs(a[2] - b[2]) + Abs(a[3] - b[3])

\* predict of a fitted forest on one row.
ForestPredict(m, x) ==
    LET i == CHOOSE k \in 1..Len(m.X) :
                 \A j \in 1..Len(m.X) :
                     \/ Distance(m.X[k], x) < Distance(m.X[j], x)
                     \/ Distance(m.X[k], x) = Distance(m.X[j], x) /\ k <= j
    IN  m.y[i]

(***************************************************************************)
(* FantasyPredictor                                                        *)
(***************************************************************************)
\* self, as a record of its fields.
Self ==
    [model |-> model, player_encoder |-> player_encoder, pos_encoder |-> pos_encoder,
     features |-> features, is_trained |-> is_trained]

\* What a call did: the value it returned or the exception it raised, and the
\* line of src/model.py that did it.
Returned(kind, line, value) == [kind |-> kind, line |-> line, value |-> value]
Raised(exc, line) == [kind |-> exc, line |-> line, value |-> 0]

\* X = df[self.features]
FeatureRows(self, df) ==
    [i \in 1..Len(df) |-> [j \in 1..Len(self.features) |-> df[i][self.features[j]]]]

\* Step 6 with the trained flag set before the fit.
TrainFitFlagFirst(self, df, weights) ==
    LET s1 == [self EXCEPT !.model = NewForest, !.is_trained = TRUE]
    IN  IF FitRaises(FeatureRows(self, df), Column(df, "target"))
        THEN [self |-> s1, ret |-> Raised("ValueError", 68)]
        ELSE [self |-> [s1 EXCEPT !.model = Fit(FeatureRows(self, df),
                                                Column(df, "target"), weights)],
              ret  |-> Returned("None", 71, 0)]

\* Step 6 with the trained flag cleared while the forest is fitted.
TrainFitFlagCleared(self, df, weights) ==
    LET s1 == [self EXCEPT !.model = NewForest, !.is_trained = FALSE]
    IN  IF FitRaises(FeatureRows(self, df), Column(df, "target"))
        THEN [self |-> s1, ret |-> Raised("ValueError", 68)]
        ELSE [self |-> [s1 EXCEPT !.model = Fit(FeatureRows(self, df),
                                                Column(df, "target"), weights),
                                  !.is_trained = TRUE],
              ret  |-> Returned("None", 71, 0)]

\* train_model, step 6: the new forest, its fit, the trained flag.
TrainFit(self, df, weights) ==
    LET s1 == [self EXCEPT !.model = NewForest]
    IN  IF FitRaises(FeatureRows(self, df), Column(df, "target"))
        THEN [self |-> s1, ret |-> Raised("ValueError", 68)]
        ELSE [self |-> [s1 EXCEPT !.model = Fit(FeatureRows(self, df),
                                                Column(df, "target"), weights),
                                  !.is_trained = TRUE],
              ret  |-> Returned("None", 71, 0)]

\* train_model, steps 4 and 5: both encoders fitted on the frame, the weights.
TrainEncode(self, frame) ==
    LET penc == EncoderFit(self.player_encoder, Column(frame, "Player"))
        qenc == EncoderFit(self.pos_encoder, Column(frame, "FantPos"))
        pid  == EncoderCodes(penc, Column(frame, "Player"))
        qid  == EncoderCodes(qenc, Column(frame, "FantPos"))
        df   == [i \in 1..Len(frame) |->
                    [Player_ID |-> pid[i], Age |-> frame[i].Age, Pos_ID |-> qid[i],
                     target |-> frame[i].target]]
        years == [i \in 1..Len(frame) |-> frame[i].Year.v]
        s1   == [self EXCEPT !.player_encoder = penc, !.pos_encoder = qenc]
    IN  TrainFit(s1, df, Weights(years))

\* train_model with the encoders fitted before the target column is looked for.
train_model_encode_first(self, file) ==
    IF ~file.exists THEN [self |-> self, ret |-> Raised("FileNotFoundError", 20)]
    ELSE IF TargetCol(Columns(file)) = ""
    THEN [self |-> [self EXCEPT
                       !.player_encoder =
                           EncoderFit(self.player_encoder, Column(file.rows, "Player"))],
          ret |-> Raised("ValueError", 33)]
    ELSE TrainEncode(self, CleanFrame(file.rows))

\* train_model(filename): [self, ret].
train_model(self, file) ==
    IF ~file.exists THEN [self |-> self, ret |-> Raised("FileNotFoundError", 20)]
    ELSE IF TargetCol(Columns(file)) = ""
    THEN [self |-> self, ret |-> Raised("ValueError", 33)]
    ELSE TrainEncode(self, CleanFrame(file.rows))

\* predict_player answering 0.0 for a label the encoders do not hold.
predict_player_default(self, player_name, age_next_season, position) ==
    IF ~self.is_trained THEN [self |-> self, ret |-> Returned("None", 80, 0)]
    ELSE IF \/ ~EncoderKnows(self.player_encoder, CleanPredictName(player_name))
            \/ ~EncoderKnows(self.pos_encoder, position)
    THEN [self |-> self, ret |-> Returned("float", 96, 0)]
    ELSE IF self.model.kind # "fitted"
    THEN [self |-> self, ret |-> Returned("None", 100, 0)]
    ELSE [self |-> self,
          ret  |-> Returned("float", 96,
                       ForestPredict(self.model,
                           <<ClassIndex(self.player_encoder, CleanPredictName(player_name)),
                             age_next_season,
                             ClassIndex(self.pos_encoder, position)>>))]

\* predict_player adding a name it does not know to the player encoder.
predict_player_learning(self, player_name, age_next_season, position) ==
    IF ~self.is_trained THEN [self |-> self, ret |-> Returned("None", 80, 0)]
    ELSE IF ~EncoderKnows(self.player_encoder, CleanPredictName(player_name))
    THEN [self |-> [self EXCEPT
                       !.player_encoder =
                           EncoderFitMerge(self.player_encoder,
                                           <<CleanPredictName(player_name)>>)],
          ret  |-> Returned("None", 100, 0)]
    ELSE IF ~EncoderKnows(self.pos_encoder, position) \/ self.model.kind # "fitted"
    THEN [self |-> self, ret |-> Returned("None", 100, 0)]
    ELSE [self |-> self,
          ret  |-> Returned("float", 96,
                       ForestPredict(self.model,
                           <<ClassIndex(self.player_encoder, CleanPredictName(player_name)),
                             age_next_season,
                             ClassIndex(self.pos_encoder, position)>>))]

\* predict_player(player_name, age_next_season, position): [self, ret].  The
\* except clause turns the ValueError of either transform, and of predict on a
\* forest that is not fitted, into None.
predict_player(self, player_name, age_next_season, position) ==
    IF ~self.is_trained THEN [self |-> self, ret |-> Returned("None", 80, 0)]
    ELSE LET clean_name == CleanPredictName(player_name) IN
         IF ~EncoderKnows(self.player_encoder, clean_name)
         THEN [self |-> self, ret |-> Returned("None", 100, 0)]
         ELSE IF ~EncoderKnows(self.pos_encoder, position)
         THEN [self |-> self, ret |-> Returned("None", 100, 0)]
         ELSE IF self.model.kind # "fitted"
         THEN [self |-> self, ret |-> Returned("None", 100, 0)]
         ELSE [self |-> self,
               ret  |-> Returned("float", 96,
                            ForestPredict(self.model,
                                <<ClassIndex(self.player_encoder, clean_name),
                                  age_next_season,
                                  ClassIndex(self.pos_encoder, position)>>))]

(***************************************************************************)
(* The predictor as a state machine                                        *)
(***************************************************************************)
\* Arguments given to predict_player.
QueryNames == {<<"A">>, <<"A", "*">>, <<" ", "B">>, <<"C">>}
QueryAges == {21, 27}
QueryPositions == {<<"W", "R">>, <<"R", "B">>}

NoHarness == [stage |-> "off"]

\* What the history keeps of the object as a call found it.
Before(self) ==
    [is_trained |-> self.is_trained,
     fitted     |-> self.model.kind = "fitted",
     players    |-> Range(self.player_encoder.classes_),
     positions  |-> Range(self.pos_encoder.classes_)]

\* __init__
InitObject ==
    /\ model = NoModel
    /\ player_encoder = NewLabelEncoder
    /\ pos_encoder = NewLabelEncoder
    /\ features = <<"Player_ID", "Age", "Pos_ID">>
    /\ is_trained = FALSE
    /\ last = [op |-> "__init__", ret |-> Returned("None", 13, 0),
               file |-> [exists |-> FALSE, header |-> ""], rows |-> <<>>,
               query |-> <<>>,
               before |-> [is_trained |-> FALSE, fitted |-> FALSE,
                           players |-> {}, positions |-> {}],
               ever_ok |-> FALSE]

Init == InitObject /\ fn = NoHarness

Assign(self) ==
    /\ model' = self.model
    /\ player_encoder' = self.player_encoder
    /\ pos_encoder' = self.pos_encoder
    /\ features' = self.features
    /\ is_trained' = self.is_trained

\* A call of train_model.  The history keeps whether the file existed, its points
\* header, the rows of a file that had a target column, and whether any call has
\* returned so far.
TrainModel(file) ==
    LET r == train_model(Self, file) IN
    /\ Assign(r.self)
    /\ last' = [op |-> "train_model", ret |-> r.ret,
                file |-> [exists |-> file.exists, header |-> file.header],
                rows |-> IF r.ret.line \in {20, 33} THEN <<>> ELSE file.rows,
                query |-> <<>>, before |-> Before(Self),
                ever_ok |-> last.ever_ok \/ r.ret.kind = "None"]
    /\ UNCHANGED fn

\* A call of predict_player.
PredictPlayer(player_name, age_next_season, position) ==
    LET r == predict_player(Self, player_name, age_next_season, position) IN
    /\ Assign(r.self)
    /\ last' = [op |-> "predict_player", ret |-> r.ret,
                file |-> [exists |-> FALSE, header |-> ""], rows |-> <<>>,
                query |-> <<player_name, age_next_season, position>>,
                before |-> Before(Self), ever_ok |-> last.ever_ok]
    /\ UNCHANGED fn

Next ==
    \/ \E file \in Files : TrainModel(file)
    \/ \E n \in QueryNames, a \in QueryAges, p \in QueryPositions : PredictPlayer(n, a, p)

Spec == Init /\ [][Next]_vars

(***************************************************************************)
(* The recency weights on their own: a column of years, then its weights.  *)
(***************************************************************************)
Seasons == 2022..2027

YearColumns == UNION {[1..n -> Seasons] : n \in 1..MaxYears}

InitWeights ==
    /\ InitObject
    /\ fn \in {[stage |-> "years", years |-> ys, weights |-> <<>>] : ys \in YearColumns}

\* Step 5 of train_model on the column.
ComputeWeights ==
    /\ fn.stage = "years"
    /\ fn' = [fn EXCEPT !.stage = "weights", !.weights = Weights(fn.years)]
    /\ UNCHANGED <<predictor, last>>

NextWeights == ComputeWeights

SpecWeights == InitWeights /\ [][NextWeights]_vars

(***************************************************************************)
(* The name normalization on its own: a name and the same name with marker *)
(* characters and whitespace around it, cleaned as train_model and as      *)
(* predict_player clean it, then cleaned again.                            *)
(***************************************************************************)
NameChars == {" ", "*", "+", "A", "B"}

Names == UNION {[1..n -> NameChars] : n \in 0..MaxNameLen}

Prefixes == {<<>>, <<" ">>}
Suffixes == {<<"*">>, <<"+">>, <<" ">>, <<"*", "+">>, <<"+", "*">>, <<" ", "*">>, <<"*", " ">>}

InitNormalize ==
    /\ InitObject
    /\ fn \in {[stage |-> "raw", name |-> n, decorated |-> pre \o n \o suf,
                train |-> <<>>, predict |-> <<>>,
                train_decorated |-> <<>>, predict_decorated |-> <<>>,
                train_again |-> <<>>, predict_again |-> <<>>] :
                   n \in Names, pre \in Prefixes, suf \in Suffixes}

\* Both names cleaned, by the training lambda and by predict_player.
CleanNames ==
    /\ fn.stage = "raw"
    /\ fn' = [fn EXCEPT !.stage = "clean",
                        !.train = CleanTrainName(fn.name),
                        !.predict = CleanPredictName(fn.name),
                        !.train_decorated = CleanTrainName(fn.decorated),
                        !.predict_decorated = CleanPredictName(fn.decorated)]
    /\ UNCHANGED <<predictor, last>>

\* The cleaned names cleaned again.
CleanAgain ==
    /\ fn.stage = "clean"
    /\ fn' = [fn EXCEPT !.stage = "again",
                        !.train_again = CleanTrainName(fn.train),
                        !.predict_again = CleanPredictName(fn.predict)]
    /\ UNCHANGED <<predictor, last>>

NextNormalize == CleanNames \/ CleanAgain

SpecNormalize == InitNormalize /\ [][NextNormalize]_vars

(***************************************************************************)
(* Claims                                                                  *)
(***************************************************************************)
\* self after the step.
SelfNext ==
    [model |-> model', player_encoder |-> player_encoder', pos_encoder |-> pos_encoder',
     features |-> features', is_trained |-> is_trained']

Queries == QueryNames \X QueryAges \X QueryPositions

\* The rows of a file that step 3 keeps: target not missing, Year a number.
Surviving(rows) ==
    {rows[i] : i \in {k \in 1..Len(rows) : rows[k].target.t # "nan" /\ rows[k].Year.t = "num"}}

TrainSucceeded == last.op = "train_model" /\ last.ret.kind = "None"

\* C1: a train_model call that fails leaves every later predict_player result as
\* it was before the call (the claim's conclusion from "the state is the same").
C1_FailedTrainKeepsPredictions ==
    [][(last'.op = "train_model" /\ last'.ret.kind # "None")
         => \A q \in Queries :
               predict_player(SelfNext, q[1], q[2], q[3]).ret
                   = predict_player(Self, q[1], q[2], q[3]).ret]_vars

\* The case of C2: predict_player called on a trained predictor with a name whose
\* clean form, or a position, the encoders do not hold.
UnknownLabelQuery ==
    /\ last.op = "predict_player"
    /\ last.before.is_trained
    /\ \/ CleanPredictName(last.query[1]) \notin last.before.players
       \/ last.query[3] \notin last.before.positions

\* C2 as stated: an unknown name or position raises UnknownEntityError or
\* UnknownCategoryError.
C2_UnknownLabelRaises ==
    UnknownLabelQuery => last.ret.kind \in {"UnknownEntityError", "UnknownCategoryError"}

\* C2 as amended: an unknown name or position makes predict_player return None from
\* its except clause, never a number and never an exception.
C2_UnknownLabelReturnsNone ==
    UnknownLabelQuery => last.ret = Returned("None", 100, 0)

C2_Witness ==
    /\ UnknownLabelQuery
    /\ last.before.fitted
    /\ CleanPredictName(last.query[1]) \in last.before.players
    /\ last.query[3] \notin last.before.positions
    /\ last.ret.kind = "None"

\* C3 as stated: predict_player before any successful train_model raises
\* NotTrainedError.
C3_UntrainedRaises ==
    (last.op = "predict_player" /\ ~last.ever_ok) => last.ret.kind = "NotTrainedError"

\* C3 as amended: predict_player before any successful train_model returns None from
\* its not-trained guard, never a number and never an exception.
C3_UntrainedReturnsNone ==
    (last.op = "predict_player" /\ ~last.ever_ok) => last.ret = Returned("None", 80, 0)

\* predict_player after a train_model that failed while fitting, with a name and a
\* position the encoders hold.
C3_Witness ==
    /\ last.op = "predict_player"
    /\ ~last.ever_ok
    /\ CleanPredictName(last.query[1]) \in last.before.players
    /\ last.query[3] \in last.before.positions
    /\ last.ret.kind = "None"

\* C4: a train_model call on a file with a target column and at least one row with
\* a target and a numeric Year succeeds, and predict_player then returns a number
\* for every name and position of the surviving rows, at any age.
C4_UsableRowsTrainAndPredict ==
    (last.op = "train_model" /\ last.ret.line \notin {20, 33} /\ Surviving(last.rows) # {})
        => /\ last.ret.kind = "None"
           /\ \A r1 \in Surviving(last.rows), r2 \in Surviving(last.rows), a \in QueryAges :
                  predict_player(Self, r1.Player, a, r2.FantPos).ret.kind = "float"

\* C5: a train_model call on a file that exists and has neither target header
\* raises ValueError and leaves the predictor's fields as they were.
C5_MissingTargetLeavesState ==
    [][(last'.op = "train_model" /\ last'.file.exists
            /\ last'.file.header \notin {"FantPT", "FantPt"})
         => (last'.ret.kind = "ValueError" /\ UNCHANGED predictor)]_vars

\* A trained predictor on which train_model has just failed for the missing header.
C5_Witness ==
    /\ last.op = "train_model"
    /\ last.file.exists
    /\ last.file.header = "Points"
    /\ last.ret = Raised("ValueError", 33)
    /\ is_trained
    /\ player_encoder.classes_ # <<>>

\* C6: after a successful train_model the known names and positions are exactly
\* those of the file's surviving rows, and predict_player returns no number for a
\* name that is not among them.
C6_RetrainReplacesEncoders ==
    TrainSucceeded
        => /\ Range(player_encoder.classes_)
                  = {CleanTrainName(r.Player) : r \in Surviving(last.rows)}
           /\ Range(pos_encoder.classes_) = {r.FantPos : r \in Surviving(last.rows)}
           /\ \A q \in Queries :
                  CleanPredictName(q[1])
                        \notin {CleanTrainName(r.Player) : r \in Surviving(last.rows)}
                      => predict_player(Self, q[1], q[2], q[3]).ret.kind = "None"

\* A second successful training that dropped a name and a position of the first.
C6_Witness ==
    /\ TrainSucceeded
    /\ last.before.fitted
    /\ last.before.players \ Range(player_encoder.classes_) # {}
    /\ last.before.positions \ Range(pos_encoder.classes_) # {}

\* C7: a predict_player call, whatever it returns, leaves the predictor's fields
\* as they were.
C7_PredictReadOnly ==
    [][last'.op = "predict_player" => UNCHANGED predictor]_vars

\* A trained predictor that has just answered None for an unknown name.
C7_Witness ==
    /\ last.op = "predict_player"
    /\ last.before.fitted
    /\ is_trained
    /\ model.kind = "fitted"
    /\ CleanPredictName(last.query[1]) \notin last.before.players
    /\ last.ret = Returned("None", 100, 0)

\* C8: once a train_model call has succeeded, the trained flag is set in every
\* later state.
C8_TrainedStaysTrained == last.ever_ok => is_trained

\* A trained predictor on which a later train_model failed while fitting.
C8_Witness ==
    /\ last.ever_ok
    /\ last.op = "train_model"
    /\ last.ret = Raised("ValueError", 68)
    /\ is_trained

\* Twice the gap of a year to 2025, clamped at 0.5.
ClampedGap2(year) == IF year >= 2025 THEN 1 ELSE 2 * (2025 - year)

\* C9: every weight is positive, a later year never has the smaller weight, and
\* the weights are in proportion to 1 / max(2025 - year, 0.5)^2.
C9_WeightsPositiveMonotone ==
    fn.stage = "weights"
        => /\ Len(fn.weights) = Len(fn.years)
           /\ \A i \in 1..Len(fn.years) : FracPos(fn.weights[i])
           /\ \A i \in 1..Len(fn.years), j \in 1..Len(fn.years) :
                  /\ fn.years[i] > fn.years[j] => FracLeq(fn.weights[j], fn.weights[i])
                  /\ fn.weights[i].num * ClampedGap2(fn.years[i]) * ClampedGap2(fn.years[i])
                         * fn.weights[j].den
                       = fn.weights[j].num * ClampedGap2(fn.years[j]) * ClampedGap2(fn.years[j])
                         * fn.weights[i].den

\* Weights of a column with a year before, at and after 2025.
C9_Witness ==
    /\ fn.stage = "weights"
    /\ \E i \in 1..Len(fn.years), j \in 1..Len(fn.years), k \in 1..Len(fn.years) :
           /\ fn.years[i] < 2025 /\ fn.years[j] = 2025 /\ fn.years[k] > 2025
           /\ fn.weights[j] = fn.weights[k]
           /\ ~FracLeq(fn.weights[j], fn.weights[i])

\* C10: cleaning a cleaned name changes nothing, a name with markers or whitespace
\* around it cleans to what the bare name cleans to, and train_model and
\* predict_player clean a name to the same value.
C10_NormalizeIdempotent ==
    /\ fn.stage = "again" => (fn.train_again = fn.train /\ fn.predict_again = fn.predict)
    /\ fn.stage \in {"clean", "again"}
           => /\ fn.train_decorated = fn.train
              /\ fn.predict_decorated = fn.predict
              /\ fn.train = fn.predict

\* A name with whitespace and both markers around it, cleaned twice to its bare form.
C10_Witness ==
    /\ fn.stage = "again"
    /\ fn.name = <<"A", " ", "B">>
    /\ fn.decorated = <<" ", "A", " ", "B", "+", "*">>
    /\ fn.train = <<"A", " ", "B">>
    /\ fn.train_again = fn.train

\* The rows of a file that step 3 keeps, in the file's order.
RECURSIVE SurvivingRows(_)
SurvivingRows(rows) ==
    IF rows = <<>> THEN <<>>
    ELSE (IF Head(rows).target.t # "nan" /\ Head(rows).Year.t = "num"
          THEN <<Head(rows)>> ELSE <<>>) \o SurvivingRows(Tail(rows))

\* A train_model call that got past the target column check.
TrainReadRows == last.op = "train_model" /\ last.ret.line \notin {20, 33}

\* C11: a row whose age is missing or is not a number is trained on, with age 25:
\* the forest is fitted on one row per surviving row of the file, the age of a row
\* without a numeric age is 25, and a training whose surviving rows all have a
\* numeric target succeeds whatever their age cells hold.
C11_AgeImputed ==
    /\ TrainSucceeded
           => /\ Len(model.X) = Len(SurvivingRows(last.rows))
              /\ \A i \in 1..Len(model.X) :
                     model.X[i][2] = IF SurvivingRows(last.rows)[i].Age.t = "num"
                                     THEN SurvivingRows(last.rows)[i].Age.v
                                     ELSE 25
    /\ (/\ TrainReadRows
        /\ SurvivingRows(last.rows) # <<>>
        /\ \A r \in Range(SurvivingRows(last.rows)) : r.target.t = "num")
           => last.ret = Returned("None", 71, 0)

\* A training on a row with a missing age, a row with a text age and a row with a
\* numeric age.
C11_Witness ==
    /\ TrainSucceeded
    /\ \E r \in Range(last.rows) : r.Age.t = "nan"
    /\ \E r \in Range(last.rows) : r.Age.t = "text"
    /\ Len(model.X) = 3
    /\ Cardinality({i \in 1..Len(model.X) : model.X[i][2] = 25}) = 2

\* The rows of a file that step 3 drops.
Excluded(rows) == Range(rows) \ Surviving(rows)

\* classes_ holds each of the labels once, so the indices of the labels are the
\* integers from 0 to their number less one, one label for each.
DenseEncoding(enc, labels) ==
    /\ Range(enc.classes_) = labels
    /\ Len(enc.classes_) = Cardinality(labels)
    /\ {ClassIndex(enc, l) : l \in labels} = 0..(Cardinality(labels) - 1)
    /\ \A l1 \in labels, l2 \in labels :
           ClassIndex(enc, l1) = ClassIndex(enc, l2) => l1 = l2

\* C12: after a successful train_model the forest has one training row per
\* surviving row, each encoder maps the surviving rows' labels one-to-one onto
\* 0..N-1 and the rows carry those indices, and predict_player returns no number
\* for a name or a position found only in dropped rows.
C12_EncodersOverSurvivingRows ==
    TrainSucceeded
        => LET kept      == SurvivingRows(last.rows)
               names     == {CleanTrainName(r.Player) : r \in Surviving(last.rows)}
               positions == {r.FantPos : r \in Surviving(last.rows)}
           IN  /\ Len(model.X) = Len(kept)
               /\ DenseEncoding(player_encoder, names)
               /\ DenseEncoding(pos_encoder, positions)
               /\ \A i \in 1..Len(kept) :
                      /\ model.X[i][1]
                             = ClassIndex(player_encoder, CleanTrainName(kept[i].Player))
                      /\ model.X[i][3] = ClassIndex(pos_encoder, kept[i].FantPos)
               /\ \A x \in Excluded(last.rows), r \in Surviving(last.rows),
                        a \in QueryAges :
                      /\ CleanTrainName(x.Player) \notin names
                             => predict_player(Self, x.Player, a, r.FantPos).ret.kind
                                    = "None"
                      /\ x.FantPos \notin positions
                             => predict_player(Self, r.Player, a, x.FantPos).ret.kind
                                    = "None"

\* A training on two surviving rows with different names and positions and a
\* dropped row whose name and position no surviving row has.
C12_Witness ==
    /\ TrainSucceeded
    /\ Len(player_encoder.classes_) = 2
    /\ Len(pos_encoder.classes_) = 2
    /\ \E x \in Excluded(last.rows) :
           /\ x.Year.t = "text"
           /\ ~EncoderKnows(player_encoder, CleanTrainName(x.Player))
           /\ ~EncoderKnows(pos_encoder, x.FantPos)

=============================================================================
